---------------------------- MODULE Spec2Model ----------------------------
(***************************************************************************)
(* Model of the personal cash flow CLI (src/cashflow.py): the Transaction  *)
(* record and its validation, the month parser of the command line, the    *)
(* JSON data file, the summary engine and the four commands.               *)
(*                                                                         *)
(* Python values are represented as follows.                               *)
(*   - a str that the code inspects (a month) is the sequence of its       *)
(*     characters, <<"2","0","2","4","-","0","1">>; comparison is by code  *)
(*     point, as Python compares str;                                      *)
(*   - a str that the code only stores (description, category, id) is a    *)
(*     TLA+ string;                                                        *)
(*   - Optional[str] is None or Some(s);                                   *)
(*   - a float is the number it holds; + and - round their exact result to *)
(*     the nearest float, ties to even (IEEE-754), with a significand of   *)
(*     MantissaBits bits standing for the 53 of a Python float.            *)
(***************************************************************************)
EXTENDS Integers, Sequences, FiniteSets, TLC

VARIABLES
    DATA_FILE,  \* the file cashflow_data.json: NoFile, or its JSON text
    out,        \* the last command run and what it reported
    args,       \* the arguments of a direct call of a function
    ret         \* what that call returned

vars == <<DATA_FILE, out, args, ret>>

-----------------------------------------------------------------------------
(* Bounds of the model *)

\* The longest collection the data file is let grow to.
MaxTxns == 2
\* The longest collection handed to calculate_summary in a direct call.
MaxLen == 3
\* Bits of a float's significand (53 in Python).
MantissaBits == 10

-----------------------------------------------------------------------------
(* Python values *)

None == [some |-> FALSE]
Some(s) == [some |-> TRUE, val |-> s]

\* bool(x) of an Optional[str]: None and the empty string are falsy.
Truthy(x) == x.some /\ x.val # <<>>

Digits == {"0", "1", "2", "3", "4", "5", "6", "7", "8", "9"}

\* ord(c) of the characters the model uses.
Ord(c) ==
    CASE c = " " -> 32 [] c = "-" -> 45
      [] c = "0" -> 48 [] c = "1" -> 49 [] c = "2" -> 50 [] c = "3" -> 51
      [] c = "4" -> 52 [] c = "5" -> 53 [] c = "6" -> 54 [] c = "7" -> 55
      [] c = "8" -> 56 [] c = "9" -> 57
      [] c = "a" -> 97 [] c = "b" -> 98 [] c = "c" -> 99

\* int(c) of a digit.
DigitVal(c) == Ord(c) - 48

\* a < b on str: the first differing character decides, a proper prefix is less.
RECURSIVE StrLess(_, _)
StrLess(a, b) ==
    IF b = <<>> THEN FALSE
    ELSE IF a = <<>> THEN TRUE
    ELSE IF Head(a) = Head(b) THEN StrLess(Tail(a), Tail(b))
    ELSE Ord(Head(a)) < Ord(Head(b))

\* a > b on str.
StrGreater(a, b) == StrLess(b, a)

-----------------------------------------------------------------------------
(* float arithmetic *)

RECURSIVE Pow2(_)
Pow2(n) == IF n = 0 THEN 1 ELSE 2 * Pow2(n - 1)

\* The number of bits of n > 0.
RECURSIVE BitLen(_)
BitLen(n) == IF n = 0 THEN 0 ELSE 1 + BitLen(n \div 2)

\* The float nearest to the natural number n, ties to the even significand.
RoundNat(n) ==
    IF n < Pow2(MantissaBits) THEN n
    ELSE LET ulp == Pow2(BitLen(n) - MantissaBits)
             q == n \div ulp
             r == n % ulp
         IN  IF 2 * r > ulp \/ (2 * r = ulp /\ q % 2 = 1)
             THEN (q + 1) * ulp
             ELSE q * ulp

\* The float nearest to the integer x.
RoundFloat(x) == IF x < 0 THEN 0 - RoundNat(0 - x) ELSE RoundNat(x)

\* a + b and a - b on floats.
FAdd(a, b) == RoundFloat(a + b)
FSub(a, b) == RoundFloat(a - b)

-----------------------------------------------------------------------------
(* The month parser of the command line *)

\* How many characters the pattern of %m, 1[0-2]|0[1-9]|[1-9], takes from the
\* head of s (0: no match). The alternatives are tried in this order and the
\* first that matches is kept.
MatchMonthDirective(s) ==
    IF Len(s) >= 2 /\ s[1] = "1" /\ s[2] \in {"0", "1", "2"} THEN 2
    ELSE IF Len(s) >= 2 /\ s[1] = "0" /\ s[2] \in Digits \ {"0"} THEN 2
    ELSE IF Len(s) >= 1 /\ s[1] \in Digits \ {"0"} THEN 1
    ELSE 0

\* Whether datetime.strptime(value, "%Y-%m") returns: four digits of a year
\* from 1 on, a hyphen, a month, and nothing left over.
StrptimeAccepts(value) ==
    /\ Len(value) >= 5
    /\ \A i \in 1..4 : value[i] \in Digits
    /\ \E i \in 1..4 : value[i] # "0"
    /\ value[5] = "-"
    /\ LET rest == SubSeq(value, 6, Len(value))
       IN  /\ MatchMonthDirective(rest) > 0
           /\ MatchMonthDirective(rest) = Len(rest)

\* parse_month(value): raises when strptime does, else returns value as given.
parse_month(value) ==
    IF StrptimeAccepts(value)
    THEN [ok |-> TRUE, value |-> value]
    ELSE [ok |-> FALSE]

-----------------------------------------------------------------------------
(* The Transaction record *)

\* Variant with a fault: a one-time transaction is not asked for its month.
PostInitNoMonthCheck(self, uuid) ==
    LET withId == IF self.id = "" THEN [self EXCEPT !.id = uuid] ELSE self
    IN  IF withId.type \notin {"inflow", "outflow"}
        THEN [ok |-> FALSE, error |-> "type must be 'inflow' or 'outflow'"]
        ELSE IF withId.recurrence \notin {"one-time", "recurring"}
        THEN [ok |-> FALSE, error |-> "recurrence must be 'one-time' or 'recurring'"]
        ELSE IF withId.recurrence = "recurring" /\ ~Truthy(withId.start_month)
        THEN [ok |-> FALSE, error |-> "recurring transactions require start_month (YYYY-MM)"]
        ELSE [ok |-> TRUE, txn |-> withId]

\* Transaction.__post_init__ on the record self the generated __init__ has
\* filled; uuid is what uuid.uuid4() draws.
PostInit(self, uuid) ==
    LET withId == IF self.id = "" THEN [self EXCEPT !.id = uuid] ELSE self
    IN  IF withId.type \notin {"inflow", "outflow"}
        THEN [ok |-> FALSE, error |-> "type must be 'inflow' or 'outflow'"]
        ELSE IF withId.recurrence \notin {"one-time", "recurring"}
        THEN [ok |-> FALSE, error |-> "recurrence must be 'one-time' or 'recurring'"]
        ELSE IF withId.recurrence = "one-time" /\ ~Truthy(withId.month)
        THEN [ok |-> FALSE, error |-> "one-time transactions require a month (YYYY-MM)"]
        ELSE IF withId.recurrence = "recurring" /\ ~Truthy(withId.start_month)
        THEN [ok |-> FALSE, error |-> "recurring transactions require start_month (YYYY-MM)"]
        ELSE [ok |-> TRUE, txn |-> withId]

\* Transaction(...): the dataclass constructor; month, start_month, end_month
\* and id are the keyword arguments with defaults None, None, None and "".
Transaction(description, amount, type, recurrence, category, month, start_month, end_month, id, uuid) ==
    PostInit([description |-> description, amount |-> amount, type |-> type,
              recurrence |-> recurrence, category |-> category,
              month |-> month, start_month |-> start_month,
              end_month |-> end_month, id |-> id], uuid)

-----------------------------------------------------------------------------
(* The data file *)

NoFile == [exists |-> FALSE]

JNull == [j |-> "null"]
JString(s) == [j |-> "string", s |-> s]
JNumber(x) == [j |-> "number", n |-> x]

\* json.dumps of an Optional[str], and json.loads of what it wrote.
DumpOptStr(x) == IF x.some THEN JString(x.val) ELSE JNull
LoadOptStr(v) == IF v.j = "null" THEN None ELSE Some(v.s)

\* json.dumps of one transaction dict: an object with a member per key.
DumpTxn(t) ==
    [description |-> JString(t.description), amount |-> JNumber(t.amount),
     type |-> JString(t.type), recurrence |-> JString(t.recurrence),
     category |-> JString(t.category), month |-> DumpOptStr(t.month),
     start_month |-> DumpOptStr(t.start_month),
     end_month |-> DumpOptStr(t.end_month), id |-> JString(t.id)]

\* json.loads of one transaction object.
LoadTxn(o) ==
    [description |-> o.description.s, amount |-> o.amount.n,
     type |-> o.type.s, recurrence |-> o.recurrence.s,
     category |-> o.category.s, month |-> LoadOptStr(o.month),
     start_month |-> LoadOptStr(o.start_month),
     end_month |-> LoadOptStr(o.end_month), id |-> o.id.s]

\* json.dumps(data) and json.loads(text) of the dict {"transactions": [...]}.
JsonDumps(data) ==
    [transactions |->
        [i \in 1..Len(data.transactions) |-> DumpTxn(data.transactions[i])]]
JsonLoads(text) ==
    [transactions |->
        [i \in 1..Len(text.transactions) |-> LoadTxn(text.transactions[i])]]

\* load_data() with the data file in state file.
load_data(file) ==
    IF ~file.exists THEN [transactions |-> <<>>] ELSE JsonLoads(file.text)

\* The data file after save_data(data).
save_data(data) == [exists |-> TRUE, text |-> JsonDumps(data)]

-----------------------------------------------------------------------------
(* The summary engine *)

\* Variant with a fault: a one-time month matches as a prefix of the target.
is_active_in_month_prefix(txn, target_month) ==
    IF txn.recurrence = "one-time"
    THEN /\ txn.month.some
         /\ Len(txn.month.val) <= Len(target_month)
         /\ SubSeq(target_month, 1, Len(txn.month.val)) = txn.month.val
    ELSE IF Truthy(txn.start_month) /\ StrGreater(txn.start_month.val, target_month)
    THEN FALSE
    ELSE IF Truthy(txn.end_month) /\ StrLess(txn.end_month.val, target_month)
    THEN FALSE
    ELSE TRUE

\* Variant with a fault: the end month itself is left out of the range.
is_active_in_month_open_end(txn, target_month) ==
    IF txn.recurrence = "one-time"
    THEN txn.month = Some(target_month)
    ELSE IF Truthy(txn.start_month) /\ StrGreater(txn.start_month.val, target_month)
    THEN FALSE
    ELSE IF Truthy(txn.end_month) /\ ~StrGreater(txn.end_month.val, target_month)
    THEN FALSE
    ELSE TRUE

\* is_active_in_month(txn, target_month).
is_active_in_month(txn, target_month) ==
    IF txn.recurrence = "one-time"
    THEN txn.month = Some(target_month)
    ELSE IF Truthy(txn.start_month) /\ StrGreater(txn.start_month.val, target_month)
    THEN FALSE
    ELSE IF Truthy(txn.end_month) /\ StrLess(txn.end_month.val, target_month)
    THEN FALSE
    ELSE TRUE

\* data.get("transactions", []).
GetTransactions(data) ==
    IF "transactions" \in DOMAIN data THEN data.transactions ELSE <<>>

\* Variant with a fault: the active transactions come out last first.
RECURSIVE ActiveTxnsReversed(_, _)
ActiveTxnsReversed(txns, target_month) ==
    IF txns = <<>> THEN <<>>
    ELSE ActiveTxnsReversed(Tail(txns), target_month)
         \o (IF is_active_in_month(Head(txns), target_month)
             THEN <<Head(txns)>> ELSE <<>>)

\* [txn for txn in txns if is_active_in_month(txn, target_month)].
RECURSIVE ActiveTxns(_, _)
ActiveTxns(txns, target_month) ==
    IF txns = <<>> THEN <<>>
    ELSE (IF is_active_in_month(Head(txns), target_month)
          THEN <<Head(txns)>> ELSE <<>>)
         \o ActiveTxns(Tail(txns), target_month)

\* Variant with a fault: the amounts of both types are added up.
RECURSIVE SumAmountsAnyType(_, _, _)
SumAmountsAnyType(txns, type, acc) ==
    IF txns = <<>> THEN acc
    ELSE SumAmountsAnyType(Tail(txns), type, FAdd(acc, Head(txns).amount))

\* sum(txn["amount"] for txn in txns if txn["type"] == type), the running
\* total acc starting at 0 and taking the amounts from left to right, each
\* addition rounded (CPython up to 3.11; from 3.12 on sum() also carries a
\* compensation term, which makes the rounding rarer and does not remove it).
RECURSIVE SumAmounts(_, _, _)
SumAmounts(txns, type, acc) ==
    IF txns = <<>> THEN acc
    ELSE SumAmounts(Tail(txns), type,
                    IF Head(txns).type = type
                    THEN FAdd(acc, Head(txns).amount)
                    ELSE acc)

calculate_summary(data, target_month, opening_balance) ==
    LET active_txns == ActiveTxns(GetTransactions(data), target_month)
        inflows == SumAmounts(active_txns, "inflow", 0)
        outflows == SumAmounts(active_txns, "outflow", 0)
        net == FSub(inflows, outflows)
        closing_balance == FAdd(opening_balance, net)
    IN  [month |-> target_month,
         opening_balance |-> opening_balance,
         inflows |-> inflows,
         outflows |-> outflows,
         net |-> net,
         closing_balance |-> closing_balance,
         transactions |-> active_txns]

-----------------------------------------------------------------------------
(* The command line *)

\* What argparse reports for an argv it refuses (it exits with status 2).
UsageError == [ok |-> FALSE]

\* The n-th of the optional positionals month, start_month, end_month
\* (nargs="?"): parse_month of the n-th value given, None when fewer are given.
Positional(months, n) ==
    IF n <= Len(months) THEN Some(parse_month(months[n]).value) ELSE None

\* parse_args of "add description amount type category [month [start_month
\* [end_month]]] [--recurring]".
parse_add(argv) ==
    IF argv.type \notin {"inflow", "outflow"} THEN UsageError
    ELSE IF \E n \in 1..Len(argv.months) : ~parse_month(argv.months[n]).ok
    THEN UsageError
    ELSE IF Len(argv.months) > 3 THEN UsageError
    ELSE [ok |-> TRUE,
          description |-> argv.description, amount |-> argv.amount,
          type |-> argv.type, category |-> argv.category,
          month |-> Positional(argv.months, 1),
          start_month |-> Positional(argv.months, 2),
          end_month |-> Positional(argv.months, 3),
          recurring |-> argv.recurring]

\* parse_args of "list [--month MONTH]".
parse_list(argv) ==
    IF argv.month.some /\ ~parse_month(argv.month.val).ok THEN UsageError
    ELSE [ok |-> TRUE,
          month |-> IF argv.month.some
                    THEN Some(parse_month(argv.month.val).value) ELSE None]

\* parse_args of "summary MONTH [--opening-balance X]".
parse_summary(argv) ==
    IF ~parse_month(argv.month).ok THEN UsageError
    ELSE [ok |-> TRUE,
          month |-> parse_month(argv.month).value,
          opening_balance |-> IF argv.opening_balance.some
                              THEN argv.opening_balance.val ELSE 0]

-----------------------------------------------------------------------------
(* The handlers: the data file they leave and what they report *)

\* Variant with a fault: the data is written back before the record is built.
handle_add_save_first(file, ns, uuid) ==
    LET data == load_data(file)
        txn == Transaction(ns.description, ns.amount, ns.type,
                           IF ns.recurring THEN "recurring" ELSE "one-time",
                           ns.category, ns.month, ns.start_month,
                           ns.end_month, "", uuid)
    IN  IF ~txn.ok
        THEN [file |-> save_data(data),
              out |-> [cmd |-> "add", status |-> "ValueError",
                       error |-> txn.error, ns |-> ns]]
        ELSE [file |-> save_data([data EXCEPT
                                    !.transactions = Append(@, txn.txn)]),
              out |-> [cmd |-> "add", status |-> "added",
                       txn |-> txn.txn, ns |-> ns]]

\* Variant with a fault: the new record is put first.
handle_add_prepend(file, ns, uuid) ==
    LET data == load_data(file)
        txn == Transaction(ns.description, ns.amount, ns.type,
                           IF ns.recurring THEN "recurring" ELSE "one-time",
                           ns.category, ns.month, ns.start_month,
                           ns.end_month, "", uuid)
    IN  IF ~txn.ok
        THEN [file |-> file,
              out |-> [cmd |-> "add", status |-> "ValueError",
                       error |-> txn.error, ns |-> ns]]
        ELSE [file |-> save_data([data EXCEPT
                                    !.transactions = <<txn.txn>> \o @]),
              out |-> [cmd |-> "add", status |-> "added",
                       txn |-> txn.txn, ns |-> ns]]

\* handle_add(args), uuid being the id drawn for the new record.
handle_add(file, ns, uuid) ==
    LET data == load_data(file)
        txn == Transaction(ns.description, ns.amount, ns.type,
                           IF ns.recurring THEN "recurring" ELSE "one-time",
                           ns.category, ns.month, ns.start_month,
                           ns.end_month, "", uuid)
    IN  IF ~txn.ok
        THEN [file |-> file,
              out |-> [cmd |-> "add", status |-> "ValueError",
                       error |-> txn.error, ns |-> ns]]
        ELSE [file |-> save_data([data EXCEPT
                                    !.transactions = Append(@, txn.txn)]),
              out |-> [cmd |-> "add", status |-> "added",
                       txn |-> txn.txn, ns |-> ns]]

\* The line handle_list prints for txn: the one month of a one-time
\* transaction or the start month and "+", then " to " and the end month when
\* there is one. The amount is printed to two decimals.
ListLine(txn) ==
    [id |-> txn.id, description |-> txn.description, type |-> txn.type,
     amount |-> txn.amount, recurrence |-> txn.recurrence,
     scope |-> IF txn.recurrence = "one-time" THEN txn.month.val
               ELSE txn.start_month.val \o <<"+">>,
     end_text |-> IF Truthy(txn.end_month)
                  THEN <<" ", "t", "o", " ">> \o txn.end_month.val ELSE <<>>,
     category |-> txn.category]

\* handle_list(args): the lines it prints, in the order printed.
handle_list(file, ns) ==
    LET data == load_data(file)
        all == GetTransactions(data)
        txns == IF ns.month.some THEN ActiveTxns(all, ns.month.val) ELSE all
    IN  [file |-> file,
         out |-> [cmd |-> "list",
                  status |-> IF txns = <<>> THEN "No transactions found."
                             ELSE "listed",
                  ns |-> ns,
                  lines |-> [i \in 1..Len(txns) |-> ListLine(txns[i])]]]

\* The line handle_summary prints for a contributing transaction.
SummaryLine(txn) ==
    [description |-> txn.description, amount |-> txn.amount,
     type |-> txn.type, recurrence |-> txn.recurrence,
     source |-> IF txn.recurrence = "one-time" THEN txn.month
                ELSE txn.start_month]

\* handle_summary(args): the summary it prints, then a line for each
\* contributing transaction.
handle_summary(file, ns) ==
    LET data == load_data(file)
        summary == calculate_summary(data, ns.month, ns.opening_balance)
    IN  [file |-> file,
         out |-> [cmd |-> "summary", status |-> "printed",
                  loaded |-> GetTransactions(data), summary |-> summary,
                  lines |-> [i \in 1..Len(summary.transactions) |->
                                SummaryLine(summary.transactions[i])]]]

\* Variant with a fault: the data file is left where it is.
handle_reset_keep(file) ==
    IF file.exists
    THEN [file |-> file,
          out |-> [cmd |-> "reset", status |-> "Cleared saved cash flow data."]]
    ELSE [file |-> file,
          out |-> [cmd |-> "reset", status |-> "No data file to clear."]]

\* handle_reset(args).
handle_reset(file) ==
    IF file.exists
    THEN [file |-> NoFile,
          out |-> [cmd |-> "reset", status |-> "Cleared saved cash flow data."]]
    ELSE [file |-> file,
          out |-> [cmd |-> "reset", status |-> "No data file to clear."]]

-----------------------------------------------------------------------------
(* The inputs *)

M2023_12 == <<"2", "0", "2", "3", "-", "1", "2">>
M2024_01 == <<"2", "0", "2", "4", "-", "0", "1">>
M2024_02 == <<"2", "0", "2", "4", "-", "0", "2">>
M2024_03 == <<"2", "0", "2", "4", "-", "0", "3">>
M2024_10 == <<"2", "0", "2", "4", "-", "1", "0">>
M2024_1 == <<"2", "0", "2", "4", "-", "1">>
M2024_13 == <<"2", "0", "2", "4", "-", "1", "3">>
Mabc == <<"a", "b", "c">>

\* What uuid.uuid4() may draw.
Uuids == {"uuid-a", "uuid-b"}

\* An argv of add: the positionals after category are in months.
AddLine(description, amount, type, category, months, recurring) ==
    [description |-> description, amount |-> amount, type |-> type,
     category |-> category, months |-> months, recurring |-> recurring]

\* The command lines of add that are tried.
AddArgv ==
    { AddLine("Coffee", 5, "outflow", "food", <<M2024_02>>, FALSE),
      AddLine("Gift", 5, "inflow", "income", <<M2024_1>>, FALSE),
      AddLine("Salary", 3000, "inflow", "income", <<M2024_01, M2024_01>>, TRUE),
      AddLine("Rent", 1200, "outflow", "housing",
              <<M2024_02, M2024_1, M2024_02>>, TRUE),
      AddLine("Coffee", 5, "outflow", "food", <<>>, FALSE),
      AddLine("Salary", 3000, "inflow", "income", <<M2024_01>>, TRUE),
      AddLine("Move", 5, "transfer", "bank", <<M2024_02>>, FALSE),
      AddLine("Coffee", 5, "outflow", "food", <<M2024_13>>, FALSE),
      AddLine("Coffee", 5, "outflow", "food", <<Mabc>>, FALSE) }

ListArgv == [month : {None, Some(M2024_02), Some(M2024_1), Some(M2024_13)}]

SummaryArgv ==
    [month : {M2024_02, M2024_1, M2024_13, Mabc},
     opening_balance : {None, Some(200)}]

NoOut == [cmd |-> "none"]
NoCall == [fn |-> "none"]
NoRet == [fn |-> "none"]

-----------------------------------------------------------------------------
(* The program: main(argv) run again and again on one data file *)

Init ==
    /\ DATA_FILE = NoFile
    /\ out = NoOut
    /\ args = NoCall
    /\ ret = NoRet

\* Leave the data file as res.file and report res.out.
Finish(res) ==
    /\ DATA_FILE' = res.file
    /\ out' = res.out
    /\ UNCHANGED <<args, ret>>

Refuse(cmd) ==
    /\ out' = [cmd |-> cmd, status |-> "usage"]
    /\ UNCHANGED <<DATA_FILE, args, ret>>

CmdAdd ==
    \E argv \in AddArgv, uuid \in Uuids :
        LET ns == parse_add(argv)
        IN  IF ~ns.ok THEN Refuse("add")
            ELSE LET res == handle_add(DATA_FILE, ns, uuid)
                 IN  /\ res.out.status = "added" =>
                            Len(load_data(DATA_FILE).transactions) < MaxTxns
                     /\ Finish(res)

CmdList ==
    \E argv \in ListArgv :
        LET ns == parse_list(argv)
        IN  IF ~ns.ok THEN Refuse("list")
            ELSE Finish(handle_list(DATA_FILE, ns))

CmdSummary ==
    \E argv \in SummaryArgv :
        LET ns == parse_summary(argv)
        IN  IF ~ns.ok THEN Refuse("summary")
            ELSE Finish(handle_summary(DATA_FILE, ns))

CmdReset ==
    /\ DATA_FILE' = handle_reset(DATA_FILE).file
    /\ out' = handle_reset(DATA_FILE).out
    /\ UNCHANGED <<args, ret>>

Next == CmdAdd \/ CmdList \/ CmdSummary \/ CmdReset

Spec == Init /\ [][Next]_vars

-----------------------------------------------------------------------------
(* Direct calls of Transaction, is_active_in_month and calculate_summary *)

\* The months of the transactions and the target months of the calls.
Months == {M2023_12, M2024_01, M2024_02, M2024_1, M2024_10}
OptMonths == {None} \cup {Some(m) : m \in Months}

\* The calls of the constructor: every type and recurrence, right or wrong,
\* each month given, empty or left out, an id given or left out.
CtorMonths == {None, Some(<<>>), Some(M2024_01), Some(M2024_1)}
CtorCalls ==
    [fn : {"Transaction"}, description : {"Salary"}, amount : {3000},
     type : {"inflow", "outflow", "transfer", ""},
     recurrence : {"one-time", "recurring", "weekly"},
     category : {"income"}, month : CtorMonths, start_month : CtorMonths,
     end_month : {None, Some(M2024_02)}, id : {"", "7"}]

\* The transactions is_active_in_month is called on: every transaction the
\* constructor accepts, with months among Months.
MonthFields ==
    [recurrence : {"one-time", "recurring"}, month : OptMonths,
     start_month : OptMonths, end_month : OptMonths]
Accepted(f) ==
    Transaction("Rent", 1200, "outflow", f.recurrence, "housing", f.month,
                f.start_month, f.end_month, "1", "uuid-a")
ActiveTxnDomain == {Accepted(f).txn : f \in {g \in MonthFields : Accepted(g).ok}}

IsActiveCalls ==
    [fn : {"is_active_in_month"}, txn : ActiveTxnDomain, target_month : Months]

\* The transactions of the collections calculate_summary is called on.
Txn(id, description, amount, type, recurrence, month, start_month, end_month) ==
    [id |-> id, description |-> description, amount |-> amount, type |-> type,
     recurrence |-> recurrence, category |-> "any", month |-> month,
     start_month |-> start_month, end_month |-> end_month]

SummaryTxnDomain ==
    { Txn("1", "Salary", 3000, "inflow", "recurring", None, Some(M2024_01), None),
      Txn("2", "Rent", 1200, "outflow", "recurring", None, Some(M2024_01), None),
      Txn("3", "Vacation", 500, "outflow", "one-time", Some(M2024_02), None, None),
      Txn("4", "Contract", 3000, "inflow", "recurring", None, Some(M2024_01),
          Some(M2024_01)),
      Txn("5", "Bonus", Pow2(MantissaBits), "inflow", "one-time",
          Some(M2024_02), None, None),
      Txn("6", "Interest", 1, "inflow", "one-time", Some(M2024_02), None, None),
      Txn("7", "Fee", 1, "outflow", "recurring", None, Some(M2024_02),
          Some(M2024_01)),
      Txn("8", "Refund", Pow2(MantissaBits) + 2, "outflow", "one-time",
          Some(M2024_03), None, None) }

SeqsUpTo(S, n) == UNION {[1..k -> S] : k \in 0..n}

SummaryCalls ==
    [fn : {"calculate_summary"},
     data : {[transactions |-> txns] : txns \in SeqsUpTo(SummaryTxnDomain, MaxLen)},
     target_month : {M2024_01, M2024_02, M2024_03},
     opening_balance : {0, 200}]

InitCalls ==
    /\ DATA_FILE = NoFile
    /\ out = NoOut
    /\ args \in CtorCalls \cup IsActiveCalls \cup SummaryCalls
    /\ ret = NoRet

CallTransaction ==
    /\ args.fn = "Transaction"
    /\ ret = NoRet
    /\ \E uuid \in Uuids :
          ret' = [fn |-> "Transaction",
                  result |-> Transaction(args.description, args.amount,
                                         args.type, args.recurrence,
                                         args.category, args.month,
                                         args.start_month, args.end_month,
                                         args.id, uuid)]
    /\ UNCHANGED <<DATA_FILE, out, args>>

CallIsActive ==
    /\ args.fn = "is_active_in_month"
    /\ ret = NoRet
    /\ ret' = [fn |-> "is_active_in_month",
               result |-> is_active_in_month(args.txn, args.target_month)]
    /\ UNCHANGED <<DATA_FILE, out, args>>

CallCalculateSummary ==
    /\ args.fn = "calculate_summary"
    /\ ret = NoRet
    /\ ret' = [fn |-> "calculate_summary",
               result |-> calculate_summary(args.data, args.target_month,
                                            args.opening_balance)]
    /\ UNCHANGED <<DATA_FILE, out, args>>

NextCalls == CallTransaction \/ CallIsActive \/ CallCalculateSummary

SpecCalls == InitCalls /\ [][NextCalls]_vars

-----------------------------------------------------------------------------
(* Notions the properties are stated with *)

StrLeq(a, b) == a = b \/ StrLess(a, b)

\* A zero-padded YYYY-MM string.
IsCanonical(s) == StrptimeAccepts(s) /\ Len(s) = 7

\* The month a string strptime accepts stands for, counted in months.
MonthNumber(s) ==
    LET year == 1000 * DigitVal(s[1]) + 100 * DigitVal(s[2])
                + 10 * DigitVal(s[3]) + DigitVal(s[4])
        month == IF Len(s) = 7 THEN 10 * DigitVal(s[6]) + DigitVal(s[7])
                 ELSE DigitVal(s[6])
    IN  12 * year + month

\* The places of txns that hold a transaction active in month m.
ActiveIdx(txns, m) == {i \in 1..Len(txns) : is_active_in_month(txns[i], m)}

\* The amounts at the places S of txns added up from the first place on.
RECURSIVE SumOver(_, _)
SumOver(txns, S) ==
    IF S = {} THEN 0
    ELSE LET k == CHOOSE i \in S : \A j \in S : j <= i
         IN  FAdd(SumOver(txns, S \ {k}), txns[k].amount)

\* The k-th smallest member of S.
KthOf(S, k) == CHOOSE i \in S : Cardinality({j \in S : j <= i}) = k

\* A month argument that is given and not empty.
Present(x) == x.some /\ Len(x.val) > 0

\* The months the records of the data file hold.
StoredMonths ==
    LET txns == load_data(DATA_FILE).transactions
    IN  UNION { {f.val : f \in {g \in {txns[i].month, txns[i].start_month,
                                      txns[i].end_month} : g.some}}
                : i \in 1..Len(txns) }

-----------------------------------------------------------------------------
(* The properties *)

\* C1: calculate_summary returns as inflows the sum of the amounts of the
\* transactions active in the target month of type inflow, as outflows that of
\* the active ones of type outflow, net = inflows - outflows, closing_balance =
\* opening_balance + net, and the month and opening balance it was given.
\* Sums and differences are those of float arithmetic, taken in the order of
\* the collection.
C1_SummaryTotals ==
    ret.fn = "calculate_summary" =>
        LET txns == args.data.transactions
            r == ret.result
            act == ActiveIdx(txns, args.target_month)
        IN  /\ r.inflows = SumOver(txns, {i \in act : txns[i].type = "inflow"})
            /\ r.outflows = SumOver(txns, {i \in act : txns[i].type = "outflow"})
            /\ r.net = FSub(r.inflows, r.outflows)
            /\ r.closing_balance = FAdd(args.opening_balance, r.net)
            /\ r.month = args.target_month
            /\ r.opening_balance = args.opening_balance

\* C1, its case: Salary 3000 in and Rent 1200 out recurring from 2024-01,
\* Vacation 500 out in 2024-02, target 2024-02, opening 200, summarised as
\* 3000 / 1700 / 1300 / 1500.
C1_Witness ==
    /\ ret.fn = "calculate_summary"
    /\ Len(args.data.transactions) = 3
    /\ [i \in 1..3 |-> args.data.transactions[i].description]
           = <<"Salary", "Rent", "Vacation">>
    /\ args.target_month = M2024_02
    /\ args.opening_balance = 200
    /\ ret.result.inflows = 3000
    /\ ret.result.outflows = 1700
    /\ ret.result.net = 1300
    /\ ret.result.closing_balance = 1500

\* C2: for a recurring transaction with start month S and end month E (E may
\* be absent), is_active_in_month(t, m) is true iff S <= m and (E is absent
\* or m <= E) as strings; on canonical strings that is the order of the months
\* themselves; and with E < S the transaction is active in no month.
C2_RecurringRange ==
    (ret.fn = "is_active_in_month" /\ args.txn.recurrence = "recurring") =>
        LET S == args.txn.start_month.val
            E == args.txn.end_month
            m == args.target_month
        IN  /\ ret.result <=> (StrLeq(S, m) /\ (~E.some \/ StrLeq(m, E.val)))
            /\ (IsCanonical(S) /\ IsCanonical(m) /\ (E.some => IsCanonical(E.val)))
                 => (ret.result <=>
                        /\ MonthNumber(S) <= MonthNumber(m)
                        /\ (~E.some \/ MonthNumber(m) <= MonthNumber(E.val)))
            /\ (E.some /\ StrLess(E.val, S))
                 => \A m2 \in Months : ~is_active_in_month(args.txn, m2)

\* C2, its case: a recurring transaction asked about its own end month, the
\* last month of its range.
C2_Witness ==
    /\ ret.fn = "is_active_in_month"
    /\ args.txn.recurrence = "recurring"
    /\ args.txn.end_month = Some(args.target_month)
    /\ StrLess(args.txn.start_month.val, args.target_month)
    /\ ret.result = TRUE

\* C3: for a one-time transaction, is_active_in_month(t, m) is true iff m is
\* equal to the transaction's month; its start_month and end_month play no
\* part, and a month that is a prefix of m does not match.
C3_OneTimeExact ==
    (ret.fn = "is_active_in_month" /\ args.txn.recurrence = "one-time") =>
        /\ ret.result <=> (args.txn.month.val = args.target_month)
        /\ \A s \in OptMonths, e \in OptMonths :
              is_active_in_month([args.txn EXCEPT !.start_month = s,
                                                  !.end_month = e],
                                 args.target_month) = ret.result

\* C3, its case: a one-time transaction whose month, 2024-1, is a prefix of
\* the target month 2024-10 and whose start and end months enclose the target.
C3_Witness ==
    /\ ret.fn = "is_active_in_month"
    /\ args.txn.recurrence = "one-time"
    /\ args.txn.month = Some(M2024_1)
    /\ args.target_month = M2024_10
    /\ args.txn.start_month = Some(M2024_01)
    /\ args.txn.end_month = Some(M2024_10)
    /\ ret.result = FALSE

\* C4: constructing a Transaction succeeds iff type is inflow or outflow,
\* recurrence is one-time or recurring, a one-time transaction has a month and
\* a recurring one has a start_month; otherwise it fails with an error that
\* names the rule and yields no Transaction.
C4_ConstructionIff ==
    ret.fn = "Transaction" =>
        LET valid ==
                /\ args.type \in {"inflow", "outflow"}
                /\ args.recurrence \in {"one-time", "recurring"}
                /\ args.recurrence = "one-time" => Present(args.month)
                /\ args.recurrence = "recurring" => Present(args.start_month)
        IN  /\ ret.result.ok <=> valid
            /\ ~ret.result.ok =>
                  /\ DOMAIN ret.result = {"ok", "error"}
                  /\ ret.result.error \in
                        {"type must be 'inflow' or 'outflow'",
                         "recurrence must be 'one-time' or 'recurring'",
                         "one-time transactions require a month (YYYY-MM)",
                         "recurring transactions require start_month (YYYY-MM)"}
            /\ ret.result.ok =>
                  /\ ret.result.txn.type = args.type
                  /\ ret.result.txn.recurrence = args.recurrence
                  /\ ret.result.txn.month = args.month
                  /\ ret.result.txn.start_month = args.start_month

\* C4, its case: a one-time transaction of a right type with no month is
\* refused.
C4_Witness ==
    /\ ret.fn = "Transaction"
    /\ args.type = "inflow"
    /\ args.recurrence = "one-time"
    /\ args.month = None
    /\ args.start_month = Some(M2024_01)
    /\ ~ret.result.ok

\* C5: add is all or nothing: an add that does not get its transaction
\* constructed leaves the data file exactly as it was, and an add that does
\* appends exactly one record, the one constructed.
C5_AddAllOrNothing ==
    [][ out'.cmd = "add" =>
          IF out'.status = "added"
          THEN load_data(DATA_FILE').transactions
                  = Append(load_data(DATA_FILE).transactions, out'.txn)
          ELSE DATA_FILE' = DATA_FILE ]_vars

\* C5, its case: an add that failed validation while the data file held
\* records.
C5_Witness ==
    /\ out.cmd = "add"
    /\ out.status = "ValueError"
    /\ DATA_FILE.exists
    /\ Len(load_data(DATA_FILE).transactions) >= 1

\* C6: the collection in the data file changes in two ways only: an add
\* appends one record at the end and leaves the earlier records and their
\* order as they were, and reset removes all records; list and summary leave
\* the data file as it was.
C6_AppendOrReset ==
    [][ LET old == load_data(DATA_FILE).transactions
            new == load_data(DATA_FILE').transactions
        IN  /\ out'.cmd \in {"list", "summary"} => DATA_FILE' = DATA_FILE
            /\ out'.cmd = "reset" => new = <<>>
            /\ out'.cmd = "add" =>
                  \/ new = old
                  \/ /\ Len(new) = Len(old) + 1
                     /\ \A i \in 1..Len(old) : new[i] = old[i]
            /\ \/ new = old
               \/ new = <<>>
               \/ /\ Len(new) = Len(old) + 1
                  /\ SubSeq(new, 1, Len(old)) = old ]_vars

\* C6, its case: an add has appended a record after an earlier, different one.
C6_Witness ==
    /\ out.cmd = "add"
    /\ out.status = "added"
    /\ Len(load_data(DATA_FILE).transactions) >= 2
    /\ load_data(DATA_FILE).transactions[1] # out.txn

\* C7: calculate_summary does not depend on the order of the collection:
\* every permutation of it gives the same inflows, outflows, net and
\* closing_balance.
C7_OrderIndependent ==
    ret.fn = "calculate_summary" =>
        LET txns == args.data.transactions
            r == ret.result
        IN  \A p \in Permutations(1..Len(txns)) :
                LET q == calculate_summary(
                             [transactions |-> [i \in 1..Len(txns) |-> txns[p[i]]]],
                             args.target_month, args.opening_balance)
                IN  /\ q.inflows = r.inflows
                    /\ q.outflows = r.outflows
                    /\ q.net = r.net
                    /\ q.closing_balance = r.closing_balance

\* C8: every month the command line accepts and hands on (the months of a
\* stored record, the target month of list and summary) is a canonical
\* zero-padded YYYY-MM string, so that the string order of the stored months
\* is the order of the months themselves.
C8_MonthsCanonical ==
    /\ \A s \in StoredMonths : IsCanonical(s)
    /\ (out.cmd = "summary" /\ out.status = "printed")
          => IsCanonical(out.summary.month)
    /\ (out.cmd = "list" /\ out.status # "usage" /\ out.ns.month.some)
          => IsCanonical(out.ns.month.val)
    /\ \A a \in StoredMonths, b \in StoredMonths :
          StrLess(a, b) <=> MonthNumber(a) < MonthNumber(b)

\* C9: with no data file the store yields the empty collection, which is so
\* before any add and after a reset; and for the empty collection the summary
\* has inflows = outflows = net = 0, closing_balance = opening_balance and no
\* contributing transaction.
C9_EmptySummary ==
    /\ ~DATA_FILE.exists => load_data(DATA_FILE) = [transactions |-> <<>>]
    /\ out.cmd = "reset" => ~DATA_FILE.exists
    /\ (out.cmd = "summary" /\ out.status = "printed" /\ out.loaded = <<>>) =>
          /\ out.summary.inflows = 0
          /\ out.summary.outflows = 0
          /\ out.summary.net = 0
          /\ out.summary.closing_balance = out.summary.opening_balance
          /\ out.summary.transactions = <<>>

\* C9, its case: a summary with an opening balance, printed while there is no
\* data file.
C9_Witness ==
    /\ out.cmd = "summary"
    /\ out.status = "printed"
    /\ ~DATA_FILE.exists
    /\ out.summary.opening_balance = 200
    /\ out.summary.closing_balance = 200

\* C10: the transactions calculate_summary returns are the active
\* transactions of the collection, each once, none else, in the order of the
\* collection, whatever their type.
C10_ActiveSubsequence ==
    ret.fn = "calculate_summary" =>
        LET txns == args.data.transactions
            got == ret.result.transactions
            act == ActiveIdx(txns, args.target_month)
        IN  /\ Len(got) = Cardinality(act)
            /\ \A k \in 1..Len(got) : got[k] = txns[KthOf(act, k)]

\* C10, its case: of three transactions the first and the last, of different
\* types, are active and the one between them is not.
C10_Witness ==
    /\ ret.fn = "calculate_summary"
    /\ Len(args.data.transactions) = 3
    /\ ActiveIdx(args.data.transactions, args.target_month) = {1, 3}
    /\ args.data.transactions[1].type # args.data.transactions[3].type
    /\ ret.result.transactions
          = <<args.data.transactions[1], args.data.transactions[3]>>

=============================================================================
